---- MODULE Spec2Model ----
(***************************************************************************)
(* Model of src/src/trainNetwork.py: the double-Q training loop            *)
(* (trainNetwork), the target synchronisation operations                   *)
(* (create_target_update_ops, create_target_initialization_ops) and the    *)
(* validation pass (validate_model, score_match).                          *)
(*                                                                         *)
(* Numbers.  The program computes in floating point; the model computes    *)
(* in exact integer arithmetic on scaled values:                           *)
(*   - epsilon is held in units of 1/(100*M*E) (M = len(training_matches), *)
(*     E = train_epochs), so 1.0 is 100*M*E, the floor 0.01 is M*E and the *)
(*     per-step decrement 1/(10*M*E) is 10;                                *)
(*   - the learning rate is held in units of min_learning_rate/8;          *)
(*   - network parameters, Q-values and rewards are integers; target       *)
(*     Q-values are held in units of 1/DiscountDen;                        *)
(*   - tau is the fraction TauNum/TauDen and the blend rounds to nearest.  *)
(*                                                                         *)
(* The collaborators that are imported by the file but not part of it      *)
(* (DraftState, matchProcessing, experienceReplay, rewards, the qNetwork)  *)
(* are modelled by small deterministic stand-ins.                          *)
(***************************************************************************)
EXTENDS Integers, Sequences, FiniteSets, TLC

(***************************************************************************)
(* Bounds of the model                                                     *)
(***************************************************************************)
MaxEpochs == 11        \* longest run, in epochs (a decay needs epoch 10)
MaxShortEpochs == 1    \* epochs of the runs that vary every other input
DrawEpochs == 3        \* epochs of the runs in which epsilon outlasts observations
MaxRuns == 2           \* calls of trainNetwork in a row, the later ones resuming
MaxBatch == 2          \* largest batch_size
MaxParams == 2         \* most trainable parameters of one network
MaxParamVal == 1       \* parameter values are 0..MaxParamVal
LongSubmissions == 12  \* submissions per team of the long match
ShortSubmissions == 6  \* submissions per team of the short match
SavedParamVal == 1000  \* value of the parameters held by a checkpoint file

(***************************************************************************)
(* Program constants                                                       *)
(***************************************************************************)
TauNum == 1                 \* tau = 1.e-3 = TauNum/TauDen
TauDen == 1000
lr_decay_freq == 10
min_learning_rate == 8      \* 1.e-6, in units of 1.25e-7
model_stash_interval == 125
stash_model == FALSE
update_freq == 1
None == -1                  \* Python's None, where an integer is expected
blank_match == [id |-> 0, winner |-> None, n |-> 0, nullAt |-> {}]

pre_training_steps_of(batch_size) == 10 * batch_size
observations_of(batch_size) == 2 * pre_training_steps_of(batch_size)

(***************************************************************************)
(* DraftState (collaborator)                                               *)
(***************************************************************************)
BLUE_TEAM == 0
RED_TEAM == 1
teams == <<BLUE_TEAM, RED_TEAM>>
NumActions == 3
DRAFT_COMPLETE == "DRAFT_COMPLETE"
INCOMPLETE == "INCOMPLETE"
invalid_states == {"BAN_AND_SUBMISSION", "DUPLICATE_SUBMISSION",
                   "DUPLICATE_ROLE", "INVALID_SUBMISSION"}

\* state.evaluateState()
evaluateState(state) == state.code

\* state.formatAction(index) -> (cid, pos) and state.getAction(cid, pos) -> index
formatAction(state, act) == <<act + 1, 1 + (state.k % 5)>>
getAction(state, cid, pos) == cid - 1

\* state.formatState(): the encoding fed to a network
formatState(state) == state.k + state.t

\* the action the match data took from a state that has k submissions
trueAction(k) == (k + 1) % NumActions

\* deepcopy(state).updateState(cid, pos): the state after submitting (cid, pos)
\* (state.n is the length of the draft).  The submission of the match data
\* leads on, the next champion id is one already taken, any other is a legal
\* alternative.
updateState(state, cid, pos) ==
    LET act == getAction(state, cid, pos)
    IN  [state EXCEPT
           !.k = state.k + 1,
           !.code = IF act = (trueAction(state.k) + 1) % NumActions
                      THEN "DUPLICATE_SUBMISSION"
                    ELSE IF state.k + 1 = state.n THEN DRAFT_COMPLETE
                    ELSE INCOMPLETE]

(***************************************************************************)
(* rewards.getReward (collaborator)                                        *)
(***************************************************************************)
getReward(state, match) ==
    IF evaluateState(state) \in invalid_states THEN 0 - 1
    ELSE IF evaluateState(state) = DRAFT_COMPLETE
            /\ match.winner = state.t THEN 1
    ELSE 0

(***************************************************************************)
(* matchProcessing.processMatch (collaborator): the experiences            *)
(* (state, action, reward, next state) of one team's draft, in order.      *)
(* The submissions listed in match.nullAt are missing bans: their action   *)
(* has champion id None.                                                   *)
(***************************************************************************)
processMatch(match, team) ==
    [j \in 1..match.n |->
       LET state == [m |-> match.id, t |-> team, k |-> j - 1, n |-> match.n,
                     code |-> INCOMPLETE]
           a     == formatAction(state, trueAction(state.k))
           next  == updateState(state, a[1], a[2])
       IN  <<state,
             IF j \in match.nullAt THEN <<None, a[2]>> ELSE a,
             getReward(next, match),
             next>>]

(***************************************************************************)
(* experienceReplay.ExperienceBuffer (collaborator)                        *)
(***************************************************************************)
\* buffer.store(exps): append, then drop the oldest beyond the capacity
store(buffer, capacity, exps) ==
    LET all == buffer \o exps
    IN  IF Len(all) > capacity
          THEN SubSeq(all, Len(all) - capacity + 1, Len(all))
          ELSE all

getBufferSize(buffer) == Len(buffer)

\* buffer.sample(n): the possible results of drawing n elements without
\* replacement (n <= size).  Every consumer of a batch treats its elements
\* independently, so a draw is represented in buffer order.
sample(buffer, n) ==
    { [j \in 1..n |-> buffer[f[j]]] :
        f \in { g \in [1..n -> 1..Len(buffer)] :
                  \A j \in 1..n : \A l \in 1..n : j < l => g[j] < g[l] } }

(***************************************************************************)
(* qNetwork (collaborator): Q-values, greedy prediction, loss              *)
(***************************************************************************)
DiscountNum == 9       \* discount_factor = DiscountNum/DiscountDen
DiscountDen == 10

outQ(params, enc) ==
    [a \in 0..(NumActions - 1) |-> params[1 + ((a + enc) % Len(params))]]

MaxOf(S) == CHOOSE x \in S : \A y \in S : y <= x

maxQ(params, enc) == MaxOf({outQ(params, enc)[a] : a \in 0..(NumActions - 1)})

\* argmax over the actions, the first one on ties
prediction(params, enc) ==
    CHOOSE a \in 0..(NumActions - 1) :
        /\ outQ(params, enc)[a] = maxQ(params, enc)
        /\ \A b \in 0..(a - 1) : outQ(params, enc)[b] # maxQ(params, enc)

ParamVals == 0..MaxParamVal
ParamVectors(n) == [1..n -> ParamVals]

(***************************************************************************)
(* create_target_update_ops / create_target_initialization_ops             *)
(***************************************************************************)
\* the two networks swapped: tau*target + (1-tau)*online
Blend_Swapped(tauNum, o, t) ==
    (2 * (tauNum * t + (TauDen - tauNum) * o) + TauDen) \div (2 * TauDen)

\* tau*online + (1-tau)*target for one parameter, tau = tauNum/TauDen,
\* rounded to the nearest representable value
Blend(tauNum, o, t) ==
    (2 * (tauNum * o + (TauDen - tauNum) * t) + TauDen) \div (2 * TauDen)

\* The list comprehension of line 228 indexes online_params[i] for every i in
\* range(len(target_params)): it raises IndexError when the online list is
\* the shorter one, and otherwise yields one assign op per target parameter.
create_target_update_ops(target_params, online_params, tauNum) ==
    IF \A j \in 1..Len(target_params) : j \in 1..Len(online_params)
      THEN [ok |-> TRUE, n |-> Len(target_params), tau |-> tauNum]
      ELSE [ok |-> FALSE, n |-> 0, tau |-> tauNum]

create_target_initialization_ops(target_params, online_params) ==
    create_target_update_ops(target_params, online_params, TauDen)

\* sess.run(ops): the target parameters after the grouped assigns
RunOps(ops, target_params, online_params) ==
    [j \in 1..Len(target_params) |->
       IF j <= ops.n
         THEN Blend(ops.tau, online_params[j], target_params[j])
         ELSE target_params[j]]

NoOps == [ok |-> FALSE, n |-> 0, tau |-> 0]

(***************************************************************************)
(* Target Q-values, in units of 1/DiscountDen                              *)
(***************************************************************************)
\* the terminal case lost: every target bootstraps
BatchTargets_AlwaysBootstrap(batch, target_params) ==
    [j \in 1..Len(batch) |->
       DiscountDen * batch[j][3]
         + DiscountNum * maxQ(target_params, formatState(batch[j][4]))]

\* lines 152-166: the targets of a training batch
BatchTargets(batch, target_params) ==
    [j \in 1..Len(batch) |->
       LET reward      == batch[j][3]
           endingState == batch[j][4]
       IN  IF evaluateState(endingState) = DRAFT_COMPLETE
             THEN DiscountDen * reward
             ELSE DiscountDen * reward
                    + DiscountNum * maxQ(target_params, formatState(endingState))]

\* lines 277-291: the targets of the validation batch
ValTargets(val_experiences, target_params) ==
    [j \in 1..Len(val_experiences) |->
       LET rew    == val_experiences[j][3]
           finish == val_experiences[j][4]
       IN  IF evaluateState(finish) = DRAFT_COMPLETE
             THEN DiscountDen * rew
             ELSE DiscountDen * rew
                    + DiscountNum * maxQ(target_params, formatState(finish))]

(***************************************************************************)
(* score_match and validate_model                                          *)
(***************************************************************************)
RECURSIVE SumTo(_, _)
SumTo(f, n) == IF n = 0 THEN 0 ELSE f[n] + SumTo(f, n - 1)

\* the experiences of a draft whose action is not a null submission
NonNull(experiences) == SelectSeq(experiences, LAMBDA exp : exp[2][1] # None)

\* the largest Q-value of each state summed instead of the submitted action's
score_match_GreedyValue(Qnet, match, team) ==
    LET kept == NonNull(processMatch(match, team))
        q    == [j \in 1..Len(kept) |-> maxQ(Qnet, formatState(kept[j][1]))]
    IN  IF Len(kept) = 0
          THEN [ok |-> FALSE, score |-> 0]
          ELSE [ok |-> TRUE, score |-> SumTo(q, Len(kept))]

\* lines 321-338.  np.stack of an empty list raises ValueError.
score_match(Qnet, match, team) ==
    LET kept == NonNull(processMatch(match, team))
        q    == [j \in 1..Len(kept) |->
                   outQ(Qnet, formatState(kept[j][1]))
                       [getAction(kept[j][1], kept[j][2][1], kept[j][2][2])]]
    IN  IF Len(kept) = 0
          THEN [ok |-> FALSE, score |-> 0]
          ELSE [ok |-> TRUE, score |-> SumTo(q, Len(kept))]

\* blue chosen only for the blue code, red for everything else
WinnerTeam_RedDefault(match) ==
    IF match.winner = 0 THEN BLUE_TEAM ELSE RED_TEAM

\* line 260 and line 304
WinnerTeam(match) == IF match.winner = 1 THEN RED_TEAM ELSE BLUE_TEAM

\* lines 257-269: the validation buffer after every match has been processed
RECURSIVE FillValReplay(_, _, _)
FillValReplay(validation_data, upto, capacity) ==
    IF upto = 0 THEN << >>
    ELSE LET match == validation_data[upto]
             exps  == NonNull(processMatch(match, WinnerTeam(match)))
             RECURSIVE StoreEach(_, _)
             StoreEach(buffer, j) ==
                 IF j > Len(exps) THEN buffer
                 ELSE StoreEach(store(buffer, capacity, <<exps[j]>>), j + 1)
         IN  StoreEach(FillValReplay(validation_data, upto - 1, capacity), 1)

\* ties given to the red side
predicted_winner_TiesToRed(blue_score, red_score) ==
    IF blue_score > red_score THEN BLUE_TEAM ELSE RED_TEAM

\* line 302
predicted_winner(blue_score, red_score) ==
    IF blue_score >= red_score THEN BLUE_TEAM ELSE RED_TEAM

\* lines 297-307: the number of matches whose predicted winner is the winner
RECURSIVE AccuratePredictions(_, _, _)
AccuratePredictions(validation_data, upto, online_params) ==
    IF upto = 0 THEN 0
    ELSE LET match == validation_data[upto]
             blue_score == score_match(online_params, match, BLUE_TEAM).score
             red_score  == score_match(online_params, match, RED_TEAM).score
         IN  AccuratePredictions(validation_data, upto - 1, online_params)
               + (IF predicted_winner(blue_score, red_score) = WinnerTeam(match)
                    THEN 1 ELSE 0)

\* online_net.loss (collaborator): the squared error of the batch, summed
Loss(val_experiences, val_targets, online_params) ==
    LET err == [j \in 1..Len(val_experiences) |->
                  LET start == val_experiences[j][1]
                      act   == val_experiences[j][2]
                      d == val_targets[j]
                             - DiscountDen * outQ(online_params, formatState(start))
                                                 [getAction(start, act[1], act[2])]
                  IN  d * d]
    IN  SumTo(err, Len(val_experiences))

\* lines 257-308.  The result is (loss, accuracy) with the accuracy held as
\* the pair <<accurate_predictions, len(validation_data)>>; the call fails
\* with IndexError on val_experiences[0] when nothing was stored and with
\* ValueError when score_match has nothing to stack.
validate_model(validation_data, online_params, target_params) ==
    LET replay  == FillValReplay(validation_data, Len(validation_data),
                                 10 * Len(validation_data))
        n_experiences == getBufferSize(replay)
        val_experiences == replay
        targets == ValTargets(val_experiences, target_params)
    IN  IF n_experiences = 0
          THEN [ok |-> FALSE, error |-> "IndexError", replay |-> replay,
                targets |-> << >>, loss |-> 0, acc |-> <<0, 0>>]
        ELSE IF \E j \in 1..Len(validation_data) : \E t \in {BLUE_TEAM, RED_TEAM} :
                   ~ score_match(online_params, validation_data[j], t).ok
          THEN [ok |-> FALSE, error |-> "ValueError", replay |-> replay,
                targets |-> targets, loss |-> 0, acc |-> <<0, 0>>]
        ELSE [ok |-> TRUE, error |-> "", replay |-> replay, targets |-> targets,
              loss |-> Loss(val_experiences, targets, online_params),
              acc |-> <<AccuratePredictions(validation_data, Len(validation_data),
                                            online_params),
                        Len(validation_data)>>]

(***************************************************************************)
(* Inputs                                                                  *)
(***************************************************************************)
LongMatch   == [id |-> 1, winner |-> 1, n |-> LongSubmissions, nullAt |-> {2}]
ShortMatch  == [id |-> 2, winner |-> 0, n |-> ShortSubmissions, nullAt |-> {1}]
OtherMatch  == [id |-> 3, winner |-> None, n |-> ShortSubmissions, nullAt |-> {3}]

model_ckpt == "tmp/model.ckpt"                              \* line 64
epoch_ckpt(n) == "tmp/model_E" \o ToString(n) \o ".ckpt"   \* line 189
stash_ckpt(n) == "tmp/models/model_E" \o ToString(n) \o ".ckpt"   \* line 187

VARIABLES
    pc,                  \* position in trainNetwork
    error,               \* the exception that ended the run, "" if none
    training_matches, validation_matches, train_epochs, batch_size,
    buffer_size, load_model,                     \* arguments of trainNetwork
    runs,                \* calls of trainNetwork so far, this one included
    files,               \* checkpoint files: path -> saved online parameters
    initialized,         \* the session's variables hold values
    online, target,      \* trainable parameters of online_net and target_net
    learning_rate,       \* online_net.learning_rate
    target_init, target_update,      \* the operations built at lines 70-71
    epsilon, i, experience_replay, total_steps, shuffled_matches,
    pos,                 \* index of the next experience of the epoch
    training_batch, targetQ,
    val_replay, val_targets,         \* locals of the running validate_model
    val_loss, val_acc, loss, train_acc,
    steps_all,           \* non-null experience steps over all epochs
    online_updates, target_updates,  \* runs of online_net.update / target_update
    stored_log,          \* every experience handed to store() in this epoch
    last_draw,           \* random.random() < epsilon of the last step, if drawn
    result               \* the value trainNetwork returned, << >> before

args == <<training_matches, validation_matches, train_epochs, batch_size,
          buffer_size, load_model, runs>>
nets == <<initialized, online, target, learning_rate, target_init, target_update>>
epoch_vars == <<epsilon, i, experience_replay, total_steps, shuffled_matches, pos>>
batch_vars == <<training_batch, targetQ>>
val_vars == <<val_replay, val_targets, val_loss, val_acc, loss, train_acc>>
counters == <<steps_all, online_updates, target_updates>>
history == <<stored_log, last_draw>>
vars == <<pc, error, args, files, nets, epoch_vars, batch_vars, val_vars, counters,
          history, result>>

\* epsilon arithmetic, in units of 1/(100*M*E)
EpsOne   == IF Len(training_matches) * train_epochs = 0
              THEN 100 ELSE 100 * Len(training_matches) * train_epochs
EpsFloor == EpsOne \div 100          \* 0.01
EpsStep  == EpsOne \div (10 * (IF Len(training_matches) * train_epochs = 0
                                 THEN 1 ELSE Len(training_matches) * train_epochs))

pre_training_steps == pre_training_steps_of(batch_size)
observations == observations_of(batch_size)

\* the inputs of a run: three families, each varying some of the arguments
SetupInputs ==
    /\ training_matches = <<ShortMatch>>
    /\ validation_matches = <<OtherMatch>>
    /\ train_epochs \in 0..1
    /\ batch_size = 1
    /\ buffer_size \in {10 * batch_size - 1, 10 * batch_size}
    /\ load_model \in BOOLEAN
    /\ \E no \in 1..MaxParams : \E nt \in 1..MaxParams :
          /\ online \in ParamVectors(no)
          /\ target \in ParamVectors(nt)
          /\ files \in {<< >>} \cup
                       {model_ckpt :> v : v \in {[j \in 1..no |-> SavedParamVal]}}
    /\ learning_rate = 2 * min_learning_rate

LoopInputs ==
    /\ training_matches \in {<<LongMatch>>, <<ShortMatch, OtherMatch>>}
    /\ validation_matches = <<LongMatch, ShortMatch>>
    /\ train_epochs \in 1..MaxShortEpochs
    /\ batch_size \in 1..MaxBatch
    /\ buffer_size \in {10 * batch_size, 10 * batch_size + 1}
    /\ load_model = FALSE
    /\ online = [j \in 1..MaxParams |-> IF j = 1 THEN MaxParamVal ELSE 0]
    /\ target = [j \in 1..MaxParams |-> 0]
    /\ files = << >>
    /\ learning_rate = 2 * min_learning_rate

LongInputs ==
    /\ training_matches = <<ShortMatch>>
    /\ validation_matches = <<ShortMatch>>
    /\ train_epochs \in 0..MaxEpochs
    /\ batch_size = 1
    /\ buffer_size = 10
    /\ load_model = FALSE
    /\ online \in ParamVectors(1)
    /\ target \in ParamVectors(1)
    /\ files = << >>
    /\ learning_rate \in {min_learning_rate + 4 * k : k \in 0..2}

\* runs long enough for epsilon to be positive past the observation threshold
DrawInputs ==
    /\ training_matches = <<LongMatch>>
    /\ validation_matches = <<LongMatch>>
    /\ train_epochs = DrawEpochs
    /\ batch_size = 1
    /\ buffer_size = 10 * batch_size
    /\ load_model = FALSE
    /\ online = [j \in 1..MaxParams |-> IF j = 1 THEN MaxParamVal ELSE 0]
    /\ target = [j \in 1..MaxParams |-> 0]
    /\ files = << >>
    /\ learning_rate = 2 * min_learning_rate

Init ==
    /\ pc = "start"
    /\ error = ""
    /\ runs = 1
    /\ (SetupInputs \/ LoopInputs \/ LongInputs \/ DrawInputs)
    /\ initialized = FALSE
    /\ target_init = NoOps
    /\ target_update = NoOps
    /\ epsilon = EpsOne
    /\ i = 0
    /\ experience_replay = << >>
    /\ total_steps = 0
    /\ shuffled_matches = << >>
    /\ pos = 1
    /\ training_batch = << >>
    /\ targetQ = << >>
    /\ val_replay = << >>
    /\ val_targets = << >>
    /\ val_loss = None
    /\ val_acc = <<None, None>>
    /\ loss = None
    /\ train_acc = <<None, None>>
    /\ steps_all = 0
    /\ online_updates = 0
    /\ target_updates = 0
    /\ stored_log = << >>
    /\ last_draw = "none"
    /\ result = << >>

Fail(e) == pc' = "failed" /\ error' = e

(***************************************************************************)
(* trainNetwork, lines 33-59: the locals and the precondition              *)
(***************************************************************************)
\* the batch size compared instead of the pre-training threshold
PreconditionHolds_BatchOnly(bs, size) == bs <= size

PreconditionHolds(bs, size) == pre_training_steps_of(bs) <= size

Start ==
    /\ pc = "start"
    /\ IF PreconditionHolds(batch_size, buffer_size)
         THEN pc' = "session" /\ error' = error
         ELSE Fail("AssertionError")
    /\ UNCHANGED <<args, files, nets, epoch_vars, batch_vars, val_vars, counters>>
    /\ UNCHANGED <<history, result>>

(***************************************************************************)
(* lines 61-68: restore the checkpoint or initialize the variables         *)
(***************************************************************************)
Session ==
    /\ pc = "session"
    /\ IF load_model
         THEN IF model_ckpt \in DOMAIN files
                THEN /\ online' = files[model_ckpt]
                     /\ initialized' = TRUE
                     /\ pc' = "setup" /\ error' = error
                ELSE /\ Fail("NotFoundError")
                     /\ UNCHANGED <<online, initialized>>
         ELSE /\ initialized' = TRUE
              /\ pc' = "setup" /\ error' = error
              /\ UNCHANGED online
    /\ UNCHANGED <<args, files, target, learning_rate, target_init, target_update,
                   epoch_vars, batch_vars, val_vars, counters>>
    /\ UNCHANGED <<history, result>>

(***************************************************************************)
(* lines 70-73: build the target operations, run the hard copy             *)
(***************************************************************************)
Setup ==
    /\ pc = "setup"
    /\ LET init == create_target_initialization_ops(target, online)
           upd  == create_target_update_ops(target, online, TauNum)
       IN  IF init.ok /\ upd.ok
             THEN /\ target_init' = init
                  /\ target_update' = upd
                  /\ target' = RunOps(init, target, online)
                  /\ pc' = "epoch" /\ error' = error
             ELSE /\ Fail("IndexError")
                  /\ UNCHANGED <<target, target_init, target_update>>
    /\ UNCHANGED <<args, files, initialized, online, learning_rate,
                   epoch_vars, batch_vars, val_vars, counters>>
    /\ UNCHANGED <<history, result>>

(***************************************************************************)
(* lines 75-92: the head of an epoch                                       *)
(***************************************************************************)
\* lines 77-79
DecayedLearningRate(epoch, lr) ==
    IF epoch > 0 /\ epoch % lr_decay_freq = 0 /\ lr >= min_learning_rate
      THEN lr \div 2
      ELSE lr

\* random.sample(training_matches, len(training_matches)): any order
Shuffles(matches) ==
    { [j \in 1..Len(matches) |-> matches[f[j]]] :
        f \in { g \in [1..Len(matches) -> 1..Len(matches)] :
                  \A j \in 1..Len(matches) : \A l \in 1..Len(matches) :
                      j # l => g[j] # g[l] } }

\* lines 93-97: the experiences of an epoch in the order the loops visit them
RECURSIVE EpochExperiences(_, _)
EpochExperiences(matches, upto) ==
    IF upto = 0 THEN << >>
    ELSE EpochExperiences(matches, upto - 1)
           \o processMatch(matches[upto], teams[1])
           \o processMatch(matches[upto], teams[2])

\* the training buffer built with room to spare
replay_capacity_Doubled == 2 * buffer_size

\* line 82: the capacity of the epoch's ExperienceBuffer
replay_capacity == buffer_size

Experiences == EpochExperiences(shuffled_matches, Len(shuffled_matches))

\* the buffer and the step count created once, before the epoch loop
EpochStart_KeepsBuffer ==
    /\ pc = "epoch"
    /\ i < train_epochs
    /\ learning_rate' = DecayedLearningRate(i, learning_rate)
    /\ shuffled_matches' \in Shuffles(training_matches)
    /\ pos' = 1
    /\ pc' = "exp"
    /\ stored_log' = << >>
    /\ last_draw' = "none"
    /\ UNCHANGED <<error, args, files, initialized, online, target, target_init,
                   target_update, epsilon, i, experience_replay, total_steps,
                   batch_vars, val_vars, counters, result>>

EpochStart ==
    /\ pc = "epoch"
    /\ i < train_epochs
    /\ learning_rate' = DecayedLearningRate(i, learning_rate)
    /\ experience_replay' = << >>
    /\ total_steps' = 0
    /\ shuffled_matches' \in Shuffles(training_matches)
    /\ pos' = 1
    /\ pc' = "exp"
    /\ stored_log' = << >>
    /\ last_draw' = "none"
    /\ UNCHANGED <<error, args, files, initialized, online, target, target_init,
                   target_update, epsilon, i, batch_vars, val_vars, counters,
                   result>>

(***************************************************************************)
(* lines 97-144: one experience of the epoch                               *)
(***************************************************************************)
\* the null submission counted as a step and stored
NullExperience_Stored ==
    /\ pc = "exp"
    /\ pos <= Len(Experiences)
    /\ Experiences[pos][2][1] = None
    /\ experience_replay' =
          store(experience_replay, buffer_size, <<Experiences[pos]>>)
    /\ total_steps' = total_steps + 1
    /\ pos' = pos + 1
    /\ UNCHANGED <<pc, error, args, files, nets, epsilon, i, shuffled_matches,
                   batch_vars, val_vars, counters>>
    /\ UNCHANGED <<history, result>>

\* lines 103-105: a null submission is skipped
NullExperience ==
    /\ pc = "exp"
    /\ pos <= Len(Experiences)
    /\ Experiences[pos][2][1] = None
    /\ pos' = pos + 1
    /\ UNCHANGED <<pc, error, args, files, nets, epsilon, i, experience_replay,
                   total_steps, shuffled_matches, batch_vars, val_vars, counters>>
    /\ UNCHANGED <<history, result>>

\* line 107
Observing(steps, bs) == steps >= observations_of(bs)

\* the draw against epsilon required for an invalid prediction as well
LearnerExperiences_DrawForInvalid(state, a, online_params, draw) ==
    LET pred_act   == prediction(online_params, formatState(state))
        cp         == formatAction(state, pred_act)
        pred_state == updateState(state, cp[1], cp[2])
        state_code == evaluateState(pred_state)
        r          == getReward(pred_state, blank_match)
        new_experience == <<state, formatAction(state, pred_act), r, pred_state>>
    IN  IF state_code \in invalid_states /\ draw THEN <<new_experience>>
        ELSE IF getAction(state, a[1], a[2]) # pred_act /\ draw
          THEN <<new_experience>>
        ELSE << >>

\* lines 116-136: the experiences the learner's own prediction adds for the
\* state of a stored experience; draw is the outcome of random.random() < epsilon
LearnerExperiences(state, a, online_params, draw) ==
    LET pred_act   == prediction(online_params, formatState(state))
        cp         == formatAction(state, pred_act)
        pred_state == updateState(state, cp[1], cp[2])
        state_code == evaluateState(pred_state)
        r          == getReward(pred_state, blank_match)
        new_experience == <<state, formatAction(state, pred_act), r, pred_state>>
    IN  IF state_code \in invalid_states THEN <<new_experience>>
        ELSE IF getAction(state, a[1], a[2]) # pred_act /\ draw
          THEN <<new_experience>>
        ELSE << >>

\* line 131: random.random() is evaluated only when the predicted state is
\* valid and the predicted action differs from the submitted one
DrawConsulted(state, a, online_params) ==
    LET pred_act   == prediction(online_params, formatState(state))
        cp         == formatAction(state, pred_act)
        pred_state == updateState(state, cp[1], cp[2])
    IN  /\ evaluateState(pred_state) \notin invalid_states
        /\ getAction(state, a[1], a[2]) # pred_act

\* lines 138-140
DecayedEpsilon(eps) == IF eps > EpsFloor THEN eps - EpsStep ELSE eps

\* the pre-training threshold forgotten
UpdateDue_NoThreshold(steps, bs) == steps % update_freq = 0

\* the pre-training threshold compared strictly
UpdateDue_Strict(steps, bs) ==
    steps > pre_training_steps_of(bs) /\ steps % update_freq = 0

\* line 144
UpdateDue(steps, bs) ==
    steps >= pre_training_steps_of(bs) /\ steps % update_freq = 0

\* the outcomes random.random() < eps can have, random.random() being in [0, 1)
Draws(eps) == {d \in BOOLEAN : (eps <= 0 => ~d) /\ (eps >= EpsOne => d)}

StoreExperience ==
    /\ pc = "exp"
    /\ pos <= Len(Experiences)
    /\ Experiences[pos][2][1] # None
    /\ LET experience == Experiences[pos]
           stored     == store(experience_replay, replay_capacity, <<experience>>)
       IN  \E draw \in Draws(epsilon) :
             LET more == IF Observing(total_steps, batch_size)
                           THEN LearnerExperiences(experience[1], experience[2],
                                                   online, draw)
                           ELSE << >>
             IN  /\ experience_replay' =
                       IF more = << >> THEN stored
                       ELSE store(stored, replay_capacity, more)
                 /\ stored_log' = stored_log \o <<experience>> \o more
                 /\ last_draw' =
                       IF /\ Observing(total_steps, batch_size)
                          /\ DrawConsulted(experience[1], experience[2], online)
                         THEN IF draw THEN "below" ELSE "not_below"
                         ELSE "none"
    /\ epsilon' = DecayedEpsilon(epsilon)
    /\ total_steps' = total_steps + 1
    /\ steps_all' = steps_all + 1
    /\ pos' = pos + 1
    /\ pc' = IF UpdateDue(total_steps + 1, batch_size) THEN "sample" ELSE "exp"
    /\ UNCHANGED <<error, args, files, nets, i, shuffled_matches, batch_vars,
                   val_vars, online_updates, target_updates, result>>

(***************************************************************************)
(* lines 145-177: one training batch                                       *)
(***************************************************************************)
\* lines 145-166: sample the batch and compute its targets
SampleBatch ==
    /\ pc = "sample"
    /\ IF getBufferSize(experience_replay) < batch_size
         THEN /\ Fail("ValueError")
              /\ UNCHANGED batch_vars
         ELSE /\ training_batch' \in sample(experience_replay, batch_size)
              /\ targetQ' = BatchTargets(training_batch', target)
              /\ pc' = "online_update" /\ error' = error
    /\ UNCHANGED <<args, files, nets, epoch_vars, val_vars, counters>>
    /\ UNCHANGED <<history, result>>

\* online_net.update (collaborator): the parameters a gradient step can
\* leave behind.  The step is opaque; it is represented by two outcomes, the
\* parameters unchanged and every parameter moved to the next value.
GradientSteps(params) ==
    {params, [j \in 1..Len(params) |-> (params[j] + 1) % (MaxParamVal + 1)]}

\* lines 171-175: the gradient step moves the online parameters
OnlineUpdate ==
    /\ pc = "online_update"
    /\ online' \in GradientSteps(online)
    /\ online_updates' = online_updates + 1
    /\ pc' = "target_update"
    /\ UNCHANGED <<error, args, files, initialized, target, learning_rate,
                   target_init, target_update, epoch_vars, batch_vars, val_vars,
                   steps_all, target_updates>>
    /\ UNCHANGED <<history, result>>

\* the soft update run only when the batch held a learner experience
TargetUpdate_Sometimes ==
    /\ pc = "target_update"
    /\ IF \E j \in 1..Len(training_batch) :
             evaluateState(training_batch[j][4]) \in invalid_states
         THEN /\ target' = RunOps(target_update, target, online)
              /\ target_updates' = target_updates + 1
         ELSE UNCHANGED <<target, target_updates>>
    /\ training_batch' = << >>
    /\ targetQ' = << >>
    /\ pc' = "exp"
    /\ UNCHANGED <<error, args, files, initialized, online, learning_rate,
                   target_init, target_update, epoch_vars, val_vars,
                   steps_all, online_updates>>
    /\ UNCHANGED <<history, result>>

\* line 177: the soft update.  The batch and its targets are dead afterwards.
TargetUpdate ==
    /\ pc = "target_update"
    /\ target' = RunOps(target_update, target, online)
    /\ target_updates' = target_updates + 1
    /\ training_batch' = << >>
    /\ targetQ' = << >>
    /\ pc' = "exp"
    /\ UNCHANGED <<error, args, files, initialized, online, learning_rate,
                   target_init, target_update, epoch_vars, val_vars,
                   steps_all, online_updates>>
    /\ UNCHANGED <<history, result>>

(***************************************************************************)
(* lines 179-189: validation and the checkpoint of the epoch               *)
(***************************************************************************)
EndOfMatches ==
    /\ pc = "exp"
    /\ pos > Len(Experiences)
    /\ pc' = "validate"
    /\ UNCHANGED <<error, args, files, nets, epoch_vars, batch_vars, val_vars,
                   counters>>
    /\ UNCHANGED <<history, result>>

\* validation run on the training buffer instead of a buffer of its own
Validate_IntoTrainingBuffer ==
    /\ pc = "validate"
    /\ LET v == validate_model(validation_matches, online, target)
       IN  /\ val_replay' = v.replay
           /\ val_targets' = v.targets
           /\ experience_replay' =
                 store(experience_replay, buffer_size, v.replay)
           /\ IF v.ok
                THEN /\ val_loss' = v.loss
                     /\ val_acc' = v.acc
                     /\ pc' = "validate_train" /\ error' = error
                ELSE /\ Fail(v.error)
                     /\ UNCHANGED <<val_loss, val_acc>>
    /\ UNCHANGED <<args, files, nets, epsilon, i, total_steps, shuffled_matches,
                   pos, batch_vars, loss, train_acc, counters>>
    /\ UNCHANGED <<history, result>>

\* line 180
Validate ==
    /\ pc = "validate"
    /\ LET v == validate_model(validation_matches, online, target)
       IN  /\ val_replay' = v.replay
           /\ val_targets' = v.targets
           /\ IF v.ok
                THEN /\ val_loss' = v.loss
                     /\ val_acc' = v.acc
                     /\ pc' = "validate_train" /\ error' = error
                ELSE /\ Fail(v.error)
                     /\ UNCHANGED <<val_loss, val_acc>>
    /\ UNCHANGED <<args, files, nets, epoch_vars, batch_vars, loss, train_acc,
                   counters>>
    /\ UNCHANGED <<history, result>>

\* lines 181-182
ValidateTrain ==
    /\ pc = "validate_train"
    /\ LET v == validate_model(training_matches, online, target)
       IN  /\ val_replay' = v.replay
           /\ val_targets' = v.targets
           /\ IF v.ok
                THEN /\ loss' = v.loss
                     /\ train_acc' = v.acc
                     /\ pc' = "save" /\ error' = error
                ELSE /\ Fail(v.error)
                     /\ UNCHANGED <<loss, train_acc>>
    /\ UNCHANGED <<args, files, nets, epoch_vars, batch_vars, val_loss, val_acc,
                   counters>>
    /\ UNCHANGED <<history, result>>

\* lines 184-189 and the step of the epoch loop.  validate_model's locals are
\* gone once it has returned.
SaveCheckpoint ==
    /\ pc = "save"
    /\ LET stashed == IF stash_model /\ i > 0 /\ i % model_stash_interval = 0
                        THEN (stash_ckpt(i) :> online) @@ files
                        ELSE files
       IN  files' = (epoch_ckpt(train_epochs) :> online) @@ stashed
    /\ val_replay' = << >>
    /\ val_targets' = << >>
    /\ i' = i + 1
    /\ pc' = "epoch"
    /\ UNCHANGED <<error, args, nets, epsilon, experience_replay, total_steps,
                   shuffled_matches, pos, batch_vars, val_loss, val_acc, loss,
                   train_acc, counters>>
    /\ UNCHANGED <<history, result>>

(***************************************************************************)
(* lines 202-203: the result.  train_acc is unbound when no epoch ran.     *)
(***************************************************************************)
\* lines 56 and 182: one loss is appended per epoch and only the list as a
\* whole is returned; it is held by its length and its latest element
loss_over_epochs == <<i, loss>>

Return ==
    /\ pc = "epoch"
    /\ i >= train_epochs
    /\ IF train_epochs = 0
         THEN Fail("UnboundLocalError") /\ result' = result
         ELSE /\ result' = <<loss_over_epochs, train_acc>>
              /\ pc' = "done" /\ error' = error
    /\ UNCHANGED <<args, files, nets, epoch_vars, batch_vars, val_vars, counters,
                   history>>

(***************************************************************************)
(* lines 17-65: trainNetwork called again with load_model = True on the    *)
(* same networks and data, after a call that returned.  The files the      *)
(* earlier call left are there; the locals start as at lines 41-57, the    *)
(* new session holds no values until line 64 or line 68 has run.           *)
(***************************************************************************)
Resume ==
    /\ pc = "done"
    /\ runs < MaxRuns
    /\ runs' = runs + 1
    /\ load_model' = TRUE
    /\ pc' = "start"
    /\ error' = ""
    /\ initialized' = FALSE
    /\ target_init' = NoOps
    /\ target_update' = NoOps
    /\ epsilon' = EpsOne
    /\ i' = 0
    /\ experience_replay' = << >>
    /\ total_steps' = 0
    /\ shuffled_matches' = << >>
    /\ pos' = 1
    /\ training_batch' = << >>
    /\ targetQ' = << >>
    /\ val_replay' = << >>
    /\ val_targets' = << >>
    /\ val_loss' = None
    /\ val_acc' = <<None, None>>
    /\ loss' = None
    /\ train_acc' = <<None, None>>
    /\ steps_all' = 0
    /\ online_updates' = 0
    /\ target_updates' = 0
    /\ stored_log' = << >>
    /\ last_draw' = "none"
    /\ result' = << >>
    /\ UNCHANGED <<training_matches, validation_matches, train_epochs, batch_size,
                   buffer_size, files, online, target, learning_rate>>

Next ==
    \/ Start
    \/ Session
    \/ Setup
    \/ EpochStart
    \/ NullExperience
    \/ StoreExperience
    \/ SampleBatch
    \/ OnlineUpdate
    \/ TargetUpdate
    \/ EndOfMatches
    \/ Validate
    \/ ValidateTrain
    \/ SaveCheckpoint
    \/ Return
    \/ Resume

Spec == Init /\ [][Next]_vars

(***************************************************************************)
(* Properties                                                              *)
(***************************************************************************)
InBatch == pc \in {"sample", "online_update", "target_update"}
BeforeEpochs == pc \in {"start", "session", "setup"}

EpsMax(a, b) == IF a >= b THEN a ELSE b

\* C1: epsilon is max(0.01, 1.0 - N*d) after N non-null experience steps
\* counted over all epochs, d = 1/(10*M*E); hence 0.01 <= epsilon <= 1.0 in
\* every reachable state.
C1_EpsilonClosedForm ==
    /\ epsilon = EpsMax(EpsFloor, EpsOne - steps_all * EpsStep)
    /\ EpsFloor <= epsilon
    /\ epsilon <= EpsOne

\* C2: the learning rate never increases, changes only by halving at an epoch
\* i > 0 with i % lr_decay_freq = 0, and is never below min_learning_rate
\* (every run starts with a learning rate of at least min_learning_rate).
C2_LearningRateSchedule ==
    /\ [][/\ learning_rate' <= learning_rate
          /\ learning_rate' # learning_rate =>
                /\ 2 * learning_rate' = learning_rate
                /\ pc = "epoch" /\ i > 0 /\ i % lr_decay_freq = 0]_vars
    /\ [](learning_rate >= min_learning_rate)

\* C3: when pre_training_steps exceeds buffer_size the run ends with the
\* assertion error and nothing else has happened: no initialization or load
\* of parameters, no target operation, no replay buffer content, no step, no
\* update of either network, no checkpoint.
C3_FailsFast ==
    pre_training_steps > buffer_size =>
        /\ pc \in {"start", "failed"}
        /\ pc = "failed" => error = "AssertionError"
        /\ ~initialized
        /\ target_init = NoOps /\ target_update = NoOps
        /\ experience_replay = << >>
        /\ total_steps = 0 /\ steps_all = 0
        /\ online_updates = 0 /\ target_updates = 0
        /\ epoch_ckpt(train_epochs) \notin DOMAIN files

C3_Witness ==
    /\ pc = "failed" /\ error = "AssertionError"
    /\ pre_training_steps > buffer_size

\* C4: whenever sample(batch_size) is about to be called the replay buffer
\* of the epoch holds at least batch_size experiences.
C4_SampleNeverFails ==
    pc = "sample" => getBufferSize(experience_replay) >= batch_size

\* a sample after evictions, with a learner experience in the buffer
C4_Witness ==
    /\ pc = "sample"
    /\ total_steps > buffer_size
    /\ getBufferSize(experience_replay) = buffer_size
    /\ \E j \in 1..Len(experience_replay) :
          evaluateState(experience_replay[j][4]) \in invalid_states

\* C5 as stated: a batch is sampled and the online network updated only at a
\* step whose count exceeds pre_training_steps, and then at every
\* update_freq-th step.
C5_UpdatesOnlyAboveThreshold ==
    /\ [](InBatch => total_steps > pre_training_steps)
    /\ [][total_steps' = total_steps + 1 =>
            (pc' = "sample" <=> /\ total_steps' > pre_training_steps
                                /\ total_steps' % update_freq = 0)]_vars

\* C5 amended: a batch is sampled and the online network updated at a step
\* exactly when the step count of the epoch, this step included, is at least
\* pre_training_steps and a multiple of update_freq; no batch update happens
\* at a step whose count is below the threshold.
C5_UpdatesFromThreshold ==
    /\ [](InBatch => /\ total_steps >= pre_training_steps
                     /\ total_steps % update_freq = 0)
    /\ [][total_steps' = total_steps + 1 =>
            (pc' = "sample" <=> /\ total_steps' >= pre_training_steps
                                /\ total_steps' % update_freq = 0)]_vars
    /\ [][pc = "sample" => pc' = "online_update"]_vars

C5_Witness ==
    /\ pc = "target_update"
    /\ total_steps = pre_training_steps

\* the target of one experience as the claims state it, in units of
\* 1/DiscountDen
StatedTarget(exp, params) ==
    IF exp[4].code = "DRAFT_COMPLETE"
      THEN DiscountDen * exp[3]
      ELSE DiscountDen * exp[3]
             + DiscountNum * MaxOf({outQ(params, exp[4].k + exp[4].t)[a] :
                                      a \in 0..(NumActions - 1)})

\* C6: per batch the targets come from the target parameters as they are
\* before the online update, then the online update runs, then exactly one
\* soft update: between the two the online network is one update ahead, and
\* everywhere else the two counts are equal.
C6_BatchOrder ==
    /\ pc = "online_update" =>
          /\ online_updates = target_updates
          /\ \A j \in 1..Len(training_batch) :
                targetQ[j] = StatedTarget(training_batch[j], target)
    /\ pc = "target_update" =>
          /\ online_updates = target_updates + 1
          /\ \A j \in 1..Len(training_batch) :
                targetQ[j] = StatedTarget(training_batch[j], target)
    /\ pc # "target_update" => online_updates = target_updates

\* an online update that moved the online parameters away from the target
C6_Witness ==
    /\ pc = "target_update"
    /\ online # target
    /\ target_updates >= 1

\* C7: the update with tau = 1.0 makes every target parameter equal to its
\* online counterpart, so target and online agree from the initialization
\* step until the first online update; with tau = 0.0 it changes no target
\* parameter.
C7_HardCopy ==
    /\ (~BeforeEpochs /\ pc # "failed" /\ online_updates = 0) =>
          \A j \in 1..Len(target) : target[j] = online[j]
    /\ create_target_update_ops(target, online, TauDen).ok =>
          \A j \in 1..Len(target) :
             RunOps(create_target_update_ops(target, online, TauDen),
                    target, online)[j] = online[j]
    /\ create_target_update_ops(target, online, 0).ok =>
          RunOps(create_target_update_ops(target, online, 0), target, online)
            = target

\* the hard copy has run on a restored model
C7_Witness ==
    /\ pc = "epoch" /\ i = 0
    /\ load_model /\ initialized
    /\ target_init.ok
    /\ online_updates = 0
    /\ \E j \in 1..Len(target) : target[j] # 0

\* C8: building the target operations fails whenever the two networks have
\* different numbers of parameters, whichever is the larger.
C8_MismatchFails ==
    Len(target) # Len(online) =>
        /\ ~target_init.ok
        /\ ~target_update.ok
        /\ BeforeEpochs \/ pc = "failed"

\* C9: the target of every experience of a training batch and of the
\* validation batch is r when s' is DRAFT_COMPLETE and
\* r + discount * max_a Q_target(s', a) otherwise.
C9_Targets ==
    /\ pc \in {"online_update", "target_update"} =>
          /\ Len(targetQ) = batch_size
          /\ Len(training_batch) = batch_size
          /\ \A j \in 1..batch_size :
                targetQ[j] = StatedTarget(training_batch[j], target)
    /\ val_targets # << >> =>
          /\ Len(val_targets) = Len(val_replay)
          /\ \A j \in 1..Len(val_replay) :
                val_targets[j] = StatedTarget(val_replay[j], target)

\* a batch holding a learner experience that ends in an invalid state, with
\* a target network whose Q-values are not all zero
C9_Witness ==
    /\ pc = "online_update"
    /\ \E j \in 1..Len(training_batch) :
          /\ evaluateState(training_batch[j][4]) \in invalid_states
          /\ targetQ[j] # DiscountDen * training_batch[j][3]

IsNull(exp) == exp[2][1] = None

\* C10: no experience with a null selection id is in the training replay
\* buffer or in the validation buffer, and the step that meets one changes
\* neither the step count, epsilon, the buffer nor a network and starts no
\* batch.
C10_NullSkipped ==
    /\ [](/\ \A j \in 1..Len(experience_replay) : ~IsNull(experience_replay[j])
          /\ \A j \in 1..Len(val_replay) : ~IsNull(val_replay[j]))
    /\ [][(pc = "exp" /\ pos <= Len(Experiences) /\ IsNull(Experiences[pos])) =>
            /\ total_steps' = total_steps
            /\ steps_all' = steps_all
            /\ epsilon' = epsilon
            /\ experience_replay' = experience_replay
            /\ online' = online /\ target' = target
            /\ online_updates' = online_updates
            /\ pc' = "exp" /\ pos' = pos + 1]_vars

\* a null submission has been skipped after an experience was stored
C10_Witness ==
    /\ pc = "exp"
    /\ pos > 1 /\ pos - 1 <= Len(Experiences)
    /\ IsNull(Experiences[pos - 1])
    /\ experience_replay # << >>

Range(seq) == {seq[j] : j \in 1..Len(seq)}

\* C11: a validate_model call (line 180 or line 181) leaves the training
\* replay buffer, the online and the target parameters, epsilon and the step
\* count as they were; what validation derives goes to the call's own buffer
\* only, and a training batch holds nothing but experiences that store() put
\* into the training buffer during this epoch.
C11_ValidationFrame ==
    [][ /\ pc \in {"validate", "validate_train"}
           => /\ experience_replay' = experience_replay
              /\ online' = online
              /\ target' = target
              /\ epsilon' = epsilon
              /\ total_steps' = total_steps
        /\ InBatch' => Range(training_batch') \subseteq Range(stored_log') ]_vars

\* both validations of an epoch have run after some training, and the first
\* one derived an experience the training buffer does not hold
C11_Witness ==
    /\ pc = "save"
    /\ online_updates > 0
    /\ experience_replay # << >>
    /\ val_replay # << >>
    /\ \E m \in Range(validation_matches) :
          \E e \in Range(processMatch(m, WinnerTeam(m))) :
             e[2][1] # None /\ e \notin Range(experience_replay)

\* the checkpoints this run has written: paths other than the one read on start
WrittenCheckpoints == DOMAIN files \ {model_ckpt}

\* C12: once i epochs have ended, each of them has its checkpoint under a path
\* containing its index (counted from 0 or from 1), and the i checkpoints are
\* i different files: none has overwritten another.
C12_CheckpointPerEpoch ==
    pc \in {"epoch", "done"}
       => /\ \A e \in 0..(i - 1) :
               epoch_ckpt(e) \in DOMAIN files \/ epoch_ckpt(e + 1) \in DOMAIN files
          /\ Cardinality(WrittenCheckpoints) = i

\* the score of a side as C13 and C20 state it: the Q-value of the action taken,
\* summed over the side's experiences whose action is not the null submission
RECURSIVE StatedScoreUpTo(_, _, _)
StatedScoreUpTo(params, exps, n) ==
    IF n = 0 THEN 0
    ELSE StatedScoreUpTo(params, exps, n - 1)
           + (IF exps[n][2][1] = None THEN 0
              ELSE outQ(params, exps[n][1].k + exps[n][1].t)[exps[n][2][1] - 1])

StatedScore(params, match, team) ==
    StatedScoreUpTo(params, processMatch(match, team),
                    Len(processMatch(match, team)))

BlueAhead(params, match) ==
    StatedScore(params, match, BLUE_TEAM) >= StatedScore(params, match, RED_TEAM)

\* the matches of data whose predicted winner, the side with the larger score
\* and blue on a tie, is the side the winner field names
StatedAccurate(params, data) ==
    {j \in 1..Len(data) :
        (data[j].winner = RED_TEAM) = ~ BlueAhead(params, data[j])}

\* C13: the accuracy validate_model returns is the number of matches whose
\* predicted winner (the side with the larger score_match score, blue on a tie)
\* is the winner the match's winner field gives, over the number of matches;
\* for one match won by each side and a network scoring blue at least as high
\* as red on both, it is one half.
C13_Accuracy ==
    /\ pc = "validate_train"
          => /\ val_acc = <<Cardinality(StatedAccurate(online, validation_matches)),
                            Len(validation_matches)>>
             /\ ( /\ Len(validation_matches) = 2
                  /\ {validation_matches[j].winner : j \in 1..2}
                        = {RED_TEAM, BLUE_TEAM}
                  /\ \A j \in 1..2 : BlueAhead(online, validation_matches[j]) )
                   => 2 * val_acc[1] = val_acc[2]
    /\ pc = "save"
          => train_acc = <<Cardinality(StatedAccurate(online, training_matches)),
                           Len(training_matches)>>

\* a validation of one match won by each side by a network that scores blue
\* strictly higher on one of them and has been trained
C13_Witness ==
    /\ pc = "validate_train"
    /\ online_updates > 0
    /\ {validation_matches[j].winner : j \in 1..Len(validation_matches)}
          = {RED_TEAM, BLUE_TEAM}
    /\ \A j \in 1..Len(validation_matches) :
          BlueAhead(online, validation_matches[j])
    /\ \E j \in 1..Len(validation_matches) :
          StatedScore(online, validation_matches[j], BLUE_TEAM)
             > StatedScore(online, validation_matches[j], RED_TEAM)
    /\ 2 * val_acc[1] = val_acc[2]

\* a validation in which the red side is predicted for some match
C13_RedPredicted ==
    /\ pc = "validate_train"
    /\ \E j \in 1..Len(validation_matches) :
          ~ BlueAhead(online, validation_matches[j])

\* the winner field names neither side
UnknownWinner(match) == match.winner \notin {BLUE_TEAM, RED_TEAM}

\* the experiences of match in buffer are all the blue side's, and there are some
FromBlue(buffer, match) ==
    /\ \E e \in Range(buffer) : e[1].m = match.id
    /\ \A e \in Range(buffer) : e[1].m = match.id => e[1].t = BLUE_TEAM

\* C14: a validate_model call whose data holds a match of unknown winner does
\* not fail: it returns a loss and an accuracy over all the matches, and the
\* experiences it used for that match are the blue side's.
C14_UnknownWinner ==
    [][ /\ ( /\ pc = "validate"
             /\ \E j \in 1..Len(validation_matches) :
                   UnknownWinner(validation_matches[j]) )
           => /\ pc' = "validate_train"
              /\ val_loss' # None
              /\ val_acc'[1] \in 0..Len(validation_matches)
              /\ val_acc'[2] = Len(validation_matches)
              /\ \A j \in 1..Len(validation_matches) :
                    UnknownWinner(validation_matches[j])
                       => FromBlue(val_replay', validation_matches[j])
        /\ ( /\ pc = "validate_train"
             /\ \E j \in 1..Len(training_matches) :
                   UnknownWinner(training_matches[j]) )
           => /\ pc' = "save"
              /\ loss' # None
              /\ train_acc'[1] \in 0..Len(training_matches)
              /\ train_acc'[2] = Len(training_matches)
              /\ \A j \in 1..Len(training_matches) :
                    UnknownWinner(training_matches[j])
                       => FromBlue(val_replay', training_matches[j]) ]_vars

\* validate_model has returned for data holding a match of unknown winner next
\* to a match whose winner is known
C14_Witness ==
    /\ pc = "save"
    /\ \E j \in 1..Len(training_matches) : UnknownWinner(training_matches[j])
    /\ \E j \in 1..Len(training_matches) : ~ UnknownWinner(training_matches[j])
    /\ val_replay # << >>
    /\ loss # None
    /\ train_acc[2] = Len(training_matches)

\* C15: what trainNetwork returns is a pair whose second component is the
\* accuracy measured on validation_matches, and the return statement yields a
\* value whatever train_epochs >= 0 is: it never fails for want of a value.
C15_ReturnsValidationAccuracy ==
    /\ pc = "done" => Len(result) = 2 /\ result[2] = val_acc
    /\ ~ (pc = "failed" /\ error = "UnboundLocalError")

\* the ids of the matches of data
Ids(data) == {data[j].id : j \in 1..Len(data)}

\* what holds inside an epoch whose buffer and step count started afresh
WithinEpoch ==
    /\ pc = "exp" => total_steps <= pos - 1
    /\ pc \in {"exp", "sample", "online_update", "target_update"}
          => /\ Range(experience_replay) \subseteq Range(stored_log)
             /\ Len(experience_replay) <= 2 * total_steps
    /\ InBatch => total_steps >= pre_training_steps
    /\ Len(stored_log) > total_steps => total_steps > observations
    /\ pc = "validate_train"
          => \A e \in Range(val_replay) : e[1].m \in Ids(validation_matches)
    /\ pc = "save"
          => \A e \in Range(val_replay) : e[1].m \in Ids(training_matches)

\* C16: every epoch starts with an empty replay buffer and a step count of 0,
\* so the step count is that of this epoch's experiences alone, a batch is
\* sampled only from this epoch's stores and only once this epoch has reached
\* the pre-training threshold, and a learner experience is only added past
\* this epoch's observation threshold; the buffer of a validate_model call
\* holds experiences of that call's matches only.
C16_FreshPerEpoch ==
    [][ /\ (pc = "epoch" /\ pc' = "exp")
           => experience_replay' = << >> /\ total_steps' = 0
        /\ WithinEpoch' ]_vars

\* the first batch of a later epoch: the step count has just reached the
\* pre-training threshold again although earlier epochs took more steps
C16_Witness ==
    /\ pc = "online_update"
    /\ i >= 1
    /\ total_steps = pre_training_steps
    /\ steps_all > total_steps
    /\ Len(experience_replay) = total_steps

Min(a, b) == IF a <= b THEN a ELSE b

\* the buffer after the elements of exps were stored one call at a time
RECURSIVE StoredOneByOne(_, _, _)
StoredOneByOne(capacity, exps, n) ==
    IF n = 0 THEN << >>
    ELSE store(StoredOneByOne(capacity, exps, n - 1), capacity, <<exps[n]>>)

\* C17: the epoch's replay buffer of capacity buffer_size holds, after the
\* stores of the epoch so far (real and learner experiences, one per call),
\* min(buffer_size, number stored) elements, never more than buffer_size, and
\* they are the most recently stored ones in the order they were stored; a
\* buffer of capacity 5 that stored E1..E8 one at a time holds E4..E8.
C17_Fifo ==
    LET total == Len(stored_log)
        kept  == Min(buffer_size, total)
    IN  /\ Len(experience_replay) = kept
        /\ Len(experience_replay) <= buffer_size
        /\ experience_replay = SubSeq(stored_log, total - kept + 1, total)
        /\ StoredOneByOne(5, <<1, 2, 3, 4, 5, 6, 7, 8>>, 8) = <<4, 5, 6, 7, 8>>

\* more has been stored than the buffer holds, a learner experience among it
C17_Witness ==
    /\ Len(stored_log) > buffer_size
    /\ Len(stored_log) > total_steps
    /\ Len(experience_replay) = buffer_size
    /\ experience_replay[1] # stored_log[1]

\* the experience C18 describes for a real experience: the state, the action
\* the online network prefers in it, the reward of the state that action leads
\* to for a match without winner, and that state
StatedLearnerExperience(exp, params) ==
    LET greedy == prediction(params, exp[1].k + exp[1].t)
        cp     == formatAction(exp[1], greedy)
        next   == updateState(exp[1], cp[1], cp[2])
    IN  <<exp[1], cp, getReward(next, [winner |-> None]), next>>

\* C18: a step for a real non-null experience stores that experience unchanged
\* and after it at most one learner experience; it stores one exactly when the
\* epoch's step count, this step included, exceeds observations and either the
\* greedy action leads to an invalid state (whatever epsilon is) or it leads to
\* a valid state, differs from the submitted action and the draw was below
\* epsilon, which it can only be for a positive epsilon.
C18_LearnerExperience ==
    [][ steps_all' = steps_all + 1
          => LET exp      == Experiences[pos]
                 learner  == StatedLearnerExperience(exp, online)
                 invalid  == learner[4].code \in invalid_states
                 differs  == learner[2][1] # exp[2][1]
                 exceeded == total_steps' > observations
                 due == /\ exceeded
                        /\ \/ invalid
                           \/ ~ invalid /\ differs /\ last_draw' = "below"
             IN  /\ stored_log' = stored_log \o <<exp>>
                                     \o (IF due THEN <<learner>> ELSE << >>)
                 /\ last_draw' = "below" => epsilon > 0
                 /\ last_draw' = "not_below" => epsilon < EpsOne
                 /\ last_draw' # "none" => exceeded /\ ~ invalid /\ differs ]_vars

\* the last step added a learner experience for a valid prediction that
\* differed from the submitted action, on a draw below epsilon
C18_Witness ==
    /\ last_draw = "below"
    /\ Len(stored_log) >= 2
    /\ stored_log[Len(stored_log)][1] = stored_log[Len(stored_log) - 1][1]
    /\ stored_log[Len(stored_log)][2] # stored_log[Len(stored_log) - 1][2]
    /\ stored_log[Len(stored_log)][4].code \notin invalid_states
    /\ total_steps > observations

\* the last step added a learner experience for an invalid prediction
C18_InvalidStored ==
    /\ last_draw = "none"
    /\ Len(stored_log) >= 2
    /\ stored_log[Len(stored_log)][1] = stored_log[Len(stored_log) - 1][1]
    /\ stored_log[Len(stored_log)][4].code \in invalid_states
    /\ stored_log[Len(stored_log)][3] = -1

\* past the threshold, the draw was not below epsilon and nothing was added
C18_NotStored ==
    /\ last_draw = "not_below"
    /\ total_steps > observations
    /\ Len(stored_log) >= 2
    /\ stored_log[Len(stored_log)][1] # stored_log[Len(stored_log) - 1][1]

\* buffer holds each non-null experience of the winner's side (blue when the
\* winner field is not the red code) of each match of data once, and no more
HoldsEachOnce(buffer, data) ==
    LET wanted == UNION { {e \in Range(processMatch(data[j],
                                        IF data[j].winner = RED_TEAM
                                          THEN RED_TEAM ELSE BLUE_TEAM)) :
                             e[2][1] # None} : j \in 1..Len(data) }
    IN  /\ \A e \in wanted :
              Cardinality({n \in 1..Len(buffer) : buffer[n] = e}) = 1
        /\ Len(buffer) = Cardinality(wanted)

\* C19: the experiences on which a validate_model call computes its loss are
\* the non-null experiences of the chosen side of every match of its data,
\* each exactly once, however many a match yields.
C19_AllValidationExperiences ==
    /\ pc = "validate_train" => HoldsEachOnce(val_replay, validation_matches)
    /\ pc = "save" => HoldsEachOnce(val_replay, training_matches)

\* the network of the size of params whose Q-values are 0 everywhere
ZeroNetwork(params) == [j \in 1..Len(params) |-> 0]

\* score_match returns, for both sides of every match of data, the stated sum
\* under the network params, and 0 under the network that is 0 everywhere
ScoresAsStated(params, data) ==
    \A j \in 1..Len(data) : \A team \in {BLUE_TEAM, RED_TEAM} :
       /\ score_match(params, data[j], team)
             = [ok |-> TRUE, score |-> StatedScore(params, data[j], team)]
       /\ score_match(ZeroNetwork(params), data[j], team).score = 0

\* C20: for every match and side that a validation scores, score_match returns
\* the sum over the side's non-null experiences of the network's Q-value of
\* the start state at the action taken, null submissions adding nothing; a
\* network that is 0 everywhere scores 0.
C20_ScoreMatch ==
    /\ pc = "validate_train" => ScoresAsStated(online, validation_matches)
    /\ pc = "save" => ScoresAsStated(online, training_matches)

\* a validation has scored a side with a null submission whose score is
\* positive and smaller than the number of its non-null experiences
C20_Witness ==
    /\ pc = "validate_train"
    /\ \E j \in 1..Len(validation_matches) : \E team \in {BLUE_TEAM, RED_TEAM} :
          LET exps == processMatch(validation_matches[j], team)
              sc   == score_match(online, validation_matches[j], team).score
          IN  /\ \E n \in 1..Len(exps) : exps[n][2][1] = None
              /\ sc > 0
              /\ sc < Len(exps) - 1

\* C21: the path read at line 64 is one a completed run writes, holding the
\* parameters that run ended with; so a call resuming after a completed run
\* finds its checkpoint and starts from the parameters that run persisted.
C21_RoundTrip ==
    /\ pc = "done"
          => model_ckpt \in DOMAIN files /\ files[model_ckpt] = online
    /\ runs > 1
          => /\ ~ (pc = "failed" /\ error = "NotFoundError")
             /\ pc = "setup" => online = files[epoch_ckpt(train_epochs)]

====
